---- MODULE Spec2Model ----
(***************************************************************************)
(* Niagara daily planning: the greedy line scheduler (schedule_day), the   *)
(* policy classifier and replenishment plan of the scheduler run, the MRP  *)
(* run, and the changeover matrix of the data provider.                    *)
(*                                                                         *)
(* SKU identifiers are modelled as the integers 1, 2, 3, numbered in    *)
(* the lexicographic order of their identifier strings; dates are day      *)
(* numbers relative to "today" (ISO date strings compare like day numbers).*)
(***************************************************************************)
EXTENDS Integers, Sequences, FiniteSets, TLC

(* ---------------------------------------------------------------------- *)
(* Bounds of the model                                                     *)
(* ---------------------------------------------------------------------- *)
MaxOrders == 2
MaxQty == 2

Skus == {1, 2, 3}

\* The empty last_sku ("") of a line that has had no assignment in this run.
NoSku == 0

\* Default changeover minutes for a pair missing from the matrix.
DefaultChangeover == 60

Max(a, b) == IF a >= b THEN a ELSE b
Min(a, b) == IF a <= b THEN a ELSE b

RECURSIVE SumSeq(_, _)
\* Sum of f[i] for i in 1..n.
SumSeq(f, n) == IF n = 0 THEN 0 ELSE f[n] + SumSeq(f, n - 1)

(* ---------------------------------------------------------------------- *)
(* Scheduler: inputs                                                       *)
(* ---------------------------------------------------------------------- *)
Weights ==
  [overdue |-> 100, due_0_1 |-> 60, due_2_3 |-> 35, key_customer |-> 20,
   high_priority |-> 18, med_priority |-> 8, low_priority |-> 0,
   policy_red |-> 25, policy_yellow |-> 10]

\* Due date, customer and priority class of the orders the day's orders are
\* drawn from: an overdue key-account order and a far-out ordinary one.
OrderKinds ==
  { [due_date |-> -1, customer |-> "CUST01", priority_class |-> "HIGH"],
    [due_date |-> 5,  customer |-> "CUST04", priority_class |-> "LOW"] }

OrderPool ==
  { [sku |-> s, qty_cases |-> q, due_date |-> k.due_date,
     customer |-> k.customer, priority_class |-> k.priority_class] :
       s \in Skus, q \in 1..MaxQty, k \in OrderKinds }

\* Rows of the lines table: capacities 3, 1 (1.5 truncated) and 0 (negative,
\* clipped).
LinePool ==
  { [rate_cph |-> 3, shift_hours |-> 1, downtime_min |-> 0,  eligible_skus |-> {1, 2}],
    [rate_cph |-> 3, shift_hours |-> 1, downtime_min |-> 30, eligible_skus |-> {1, 2, 3}],
    [rate_cph |-> 2, shift_hours |-> 1, downtime_min |-> 90, eligible_skus |-> {2, 3}] }

LineIds == <<"L1", "L2">>

\* Changeover matrices: a complete, asymmetric one with a free pair, and a
\* sparse one (missing pairs take the default).
ChFull ==
  [p \in Skus \X Skus |->
     IF p[1] = p[2] THEN 0
     ELSE IF p[1] < p[2] THEN (IF p[1] = 1 /\ p[2] = 2 THEN 0 ELSE 12)
     ELSE 45]
ChSparse == (<<1, 2>> :> 5) @@ (<<2, 3>> :> 0)
ChangeoverPool == {ChFull, ChSparse}

\* policy_status tables (sku -> status); a SKU missing from it is GREEN.
PolPool == { (1 :> "RED"), (2 :> "YELLOW") @@ (3 :> "GREEN") }

VARIABLES
  orders,        \* the day's orders, in input order
  lines,         \* the lines table, in input order
  changeover,    \* the changeover matrix as the dict ch
  policy_status, \* sku -> RED/YELLOW/GREEN
  sku_need,      \* SKU-demand groups in processing order
  ldf,           \* per line: remaining_cases, last_sku
  sched_rows,    \* rows emitted so far
  pos,           \* number of SKU groups processed
  pc,            \* position in schedule_day
  \* the scheduler run (main of 03_daily_scheduler) and the MRP run
  inputs_present, \* whether every input table of the scheduler run exists
  fg_inv,        \* FG inventory rows, in input order
  forecast,      \* forecast rows
  policy,        \* sku -> policy row
  pol_stat,      \* rows returned by build_policy_status
  inv,           \* the merged gap table of the plan stage
  gap_total,     \* sku -> the loop's gap after MOQ and rounding
  plan_rows,     \* rows of plan_by_sku_day
  results,       \* names of the tables present in the results directory
  m_pc,          \* position in the scheduler run
  mrp_pc,        \* position in the MRP run
  \* the tables of the MRP run
  bom,           \* BOM rows, in input order
  mat_inv,       \* material inventory rows, in input order
  req,           \* rows returned by mrp_explode
  exc,           \* rows returned by build_mrp_exception
  \* the data provider's changeover matrix and the lookups made on a matrix
  fam,           \* sku -> family, of the generated catalog
  gen_rows,      \* (from, to) -> minutes, rows generated so far
  gen_pos,       \* number of pairs generated
  chg_result,    \* (a, b) -> chg(a, b) of the lookups made
  d_pc           \* position of the data provider and the lookups

schedVars ==
  <<orders, lines, changeover, policy_status, sku_need, ldf, sched_rows, pos, pc>>

mainVars ==
  <<inputs_present, fg_inv, forecast, policy, pol_stat, inv, gap_total,
    plan_rows, results, m_pc, mrp_pc>>

mrpVars == <<bom, mat_inv, req, exc>>

dataVars == <<fam, gen_rows, gen_pos, chg_result, d_pc>>

vars == <<schedVars, mainVars, mrpVars, dataVars>>

\* The scheduling day ("today").
day == 0

(* ---------------------------------------------------------------------- *)
(* Scheduler: schedule_day                                                 *)
(* ---------------------------------------------------------------------- *)
_priority_score(order_row, today, status, w) ==
  LET dtd == order_row.due_date - today
      due == IF dtd < 0 THEN w.overdue
             ELSE IF dtd <= 1 THEN w.due_0_1
             ELSE IF dtd <= 3 THEN w.due_2_3
             ELSE 0
      cust == IF order_row.customer \in {"CUST01", "CUST02"}
              THEN w.key_customer ELSE 0
      pcl == IF order_row.priority_class = "HIGH" THEN w.high_priority
             ELSE IF order_row.priority_class = "MED" THEN w.med_priority
             ELSE w.low_priority
      polw == IF status = "RED" THEN w.policy_red
              ELSE IF status = "YELLOW" THEN w.policy_yellow
              ELSE 0
  IN due + cust + pcl + polw

\* orders["sku"].map(pol).fillna("GREEN")
PolicyOf(pol, s) == IF s \in DOMAIN pol THEN pol[s] ELSE "GREEN"

OrderScore(ords, pol, i) ==
  _priority_score(ords[i], day, PolicyOf(pol, ords[i].sku), Weights)

RECURSIVE SetMax(_)
SetMax(S) ==
  LET x == CHOOSE y \in S : TRUE
  IN IF S = {x} THEN x ELSE Max(x, SetMax(S \ {x}))

RECURSIVE SetSum(_, _)
\* Sum of f[i] over the indices i in S.
SetSum(f, S) ==
  IF S = {} THEN 0
  ELSE LET x == CHOOSE y \in S : TRUE IN f[x] + SetSum(f, S \ {x})

Group_FirstOrderOnly(ords, pol, s) ==
  LET idx == {i \in DOMAIN ords : ords[i].sku = s}
      first == CHOOSE i \in idx : \A j \in idx : i <= j
  IN [sku |-> s,
      total_qty_cases |-> ords[first].qty_cases,
      max_priority |-> SetMax({OrderScore(ords, pol, i) : i \in idx})]

\* One group of orders.groupby(["sku"]).agg(sum of qty_cases, max of score).
Group(ords, pol, s) ==
  LET idx == {i \in DOMAIN ords : ords[i].sku = s}
  IN [sku |-> s,
      total_qty_cases |-> SetSum([i \in DOMAIN ords |-> ords[i].qty_cases], idx),
      max_priority |-> SetMax({OrderScore(ords, pol, i) : i \in idx})]

RECURSIVE SortedSeqOf(_)
\* The elements of a set of integers as an ascending sequence.
SortedSeqOf(S) ==
  IF S = {} THEN <<>>
  ELSE LET m == CHOOSE x \in S : \A y \in S : x <= y
       IN <<m>> \o SortedSeqOf(S \ {m})

GroupBySku_PerOrder(ords, pol) ==
  [k \in DOMAIN ords |->
     [sku |-> ords[k].sku, total_qty_cases |-> ords[k].qty_cases,
      max_priority |-> OrderScore(ords, pol, k)]]

\* groupby sorts the group keys: the groups come out in ascending SKU order.
GroupBySku(ords, pol) ==
  LET keys == SortedSeqOf({ords[i].sku : i \in DOMAIN ords})
  IN [k \in DOMAIN keys |-> Group(ords, pol, keys[k])]

KeyBefore_QtyAscending(a, b) ==
  \/ a.max_priority > b.max_priority
  \/ a.max_priority = b.max_priority /\ a.total_qty_cases < b.total_qty_cases

\* Sort key order of sort_values(["max_priority","total_qty_cases"],
\* ascending=[False, False]): strictly before.
KeyBefore(a, b) ==
  \/ a.max_priority > b.max_priority
  \/ a.max_priority = b.max_priority /\ a.total_qty_cases > b.total_qty_cases

KeyEqual(a, b) ==
  a.max_priority = b.max_priority /\ a.total_qty_cases = b.total_qty_cases

\* The multi-column sort is stable: rows with equal keys keep the order in
\* which groupby delivered them.
SortValues(groups) ==
  LET n == Len(groups)
      rank(i) == Cardinality({j \in 1..n :
                    \/ KeyBefore(groups[j], groups[i])
                    \/ KeyEqual(groups[j], groups[i]) /\ j < i}) + 1
  IN [r \in 1..n |-> groups[CHOOSE i \in 1..n : rank(i) = r]]

\* capacity_cases * 60, kept as an integer.
Capacity60(line) ==
  60 * line.rate_cph * line.shift_hours - line.rate_cph * line.downtime_min

InitialRemaining_NoClip(line) == Capacity60(line) \div 60

\* capacity_cases.clip(lower=0).astype(int): truncation toward zero.
InitialRemaining(line) ==
  IF Capacity60(line) <= 0 THEN 0 ELSE Capacity60(line) \div 60

\* Twice the median of rate_cph over all lines.
Median2(lns) ==
  LET n == Len(lns)
      rates == [i \in 1..n |-> lns[i].rate_cph]
      rankOf(i) == Cardinality({j \in 1..n :
                      rates[j] < rates[i] \/ (rates[j] = rates[i] /\ j < i)}) + 1
      at(r) == rates[CHOOSE i \in 1..n : rankOf(i) = r]
  IN IF n % 2 = 1 THEN 2 * at((n + 1) \div 2)
     ELSE at(n \div 2) + at(n \div 2 + 1)

chg_ZeroDefault(ch, a, b) ==
  IF a = NoSku THEN 0
  ELSE IF <<a, b>> \in DOMAIN ch THEN ch[<<a, b>>] ELSE 0

chg(ch, a, b) ==
  IF a = NoSku THEN 0
  ELSE IF <<a, b>> \in DOMAIN ch THEN ch[<<a, b>>] ELSE DefaultChangeover

\* 120 * (remaining_cases - co * median / 60 - co * 10)
Score120(lns, state, co) ==
  120 * state.remaining_cases - co * Median2(lns) - 1200 * co

Elig_IgnoreCapacity(lns, l, sku) ==
  {i \in DOMAIN lns : sku \in lns[i].eligible_skus}

\* Indices of the lines that list the SKU and have remaining capacity.
Elig(lns, l, sku) ==
  {i \in DOMAIN lns : sku \in lns[i].eligible_skus /\ l[i].remaining_cases > 0}

BestLine_LastOnTie(lns, l, ch, sku) ==
  LET sc(i) == Score120(lns, l[i], chg(ch, l[i].last_sku, sku))
  IN CHOOSE i \in Elig(lns, l, sku) :
       \A j \in Elig(lns, l, sku) :
          sc(i) > sc(j) \/ (sc(i) = sc(j) /\ i >= j)

\* elig.sort(reverse=True, key=score); elig[0]: the highest score, and among
\* equal scores the line enumerated first.
BestLine(lns, l, ch, sku) ==
  LET sc(i) == Score120(lns, l[i], chg(ch, l[i].last_sku, sku))
  IN CHOOSE i \in Elig(lns, l, sku) :
       \A j \in Elig(lns, l, sku) :
          sc(i) > sc(j) \/ (sc(i) = sc(j) /\ i <= j)

SchedInit ==
  /\ orders \in UNION {[1..n -> OrderPool] : n \in 1..MaxOrders}
  /\ lines \in [DOMAIN LineIds -> LinePool]
  /\ changeover \in ChangeoverPool
  /\ policy_status \in PolPool
  /\ sku_need = <<>>
  /\ ldf = <<>>
  /\ sched_rows = <<>>
  /\ pos = 0
  /\ pc = "start"

\* Lines 85-112: scores, SKU-demand groups in processing order, line state.
Prepare ==
  /\ pc = "start"
  /\ sku_need' = SortValues(GroupBySku(orders, policy_status))
  /\ ldf' = [i \in DOMAIN lines |->
               [remaining_cases |-> InitialRemaining(lines[i]),
                last_sku |-> NoSku]]
  /\ pc' = "loop"
  /\ UNCHANGED <<orders, lines, changeover, policy_status, sched_rows, pos>>
  /\ UNCHANGED <<mainVars, mrpVars, dataVars>>

\* Lines 116-131: no line is eligible with remaining capacity.
StepUnassigned ==
  /\ pc = "loop"
  /\ pos < Len(sku_need)
  /\ LET s == sku_need[pos + 1]
         qty == s.total_qty_cases
     IN /\ Elig(lines, ldf, s.sku) = {}
        /\ sched_rows' = Append(sched_rows,
             [date |-> day, line_id |-> "UNASSIGNED", sku |-> s.sku,
              planned_qty_cases |-> 0, unmet_qty_cases |-> qty,
              plan_source |-> "", changeover_min |-> 0,
              flags |-> "CAPACITY_OR_ELIGIBILITY"])
  /\ pos' = pos + 1
  /\ UNCHANGED <<orders, lines, changeover, policy_status, sku_need, ldf, pc>>
  /\ UNCHANGED <<mainVars, mrpVars, dataVars>>

StepAssign_DeductChangeover ==
  /\ pc = "loop"
  /\ pos < Len(sku_need)
  /\ LET s == sku_need[pos + 1]
         qty == s.total_qty_cases
     IN /\ Elig(lines, ldf, s.sku) # {}
        /\ LET idx == BestLine(lines, ldf, changeover, s.sku)
               co_min == chg(changeover, ldf[idx].last_sku, s.sku)
               can == ldf[idx].remaining_cases
               make == Min(qty, can)
           IN /\ ldf' = [ldf EXCEPT ![idx] =
                           [remaining_cases |-> Max(0, can - make - co_min),
                            last_sku |-> s.sku]]
              /\ sched_rows' = Append(sched_rows,
                   [date |-> day, line_id |-> LineIds[idx], sku |-> s.sku,
                    planned_qty_cases |-> make, unmet_qty_cases |-> qty - make,
                    plan_source |-> "AUTO", changeover_min |-> co_min,
                    flags |-> ""])
  /\ pos' = pos + 1
  /\ UNCHANGED <<orders, lines, changeover, policy_status, sku_need, pc>>
  /\ UNCHANGED <<mainVars, mrpVars, dataVars>>

\* Lines 116-127, 132-141: assign the group to the best eligible line.
StepAssign ==
  /\ pc = "loop"
  /\ pos < Len(sku_need)
  /\ LET s == sku_need[pos + 1]
         qty == s.total_qty_cases
     IN /\ Elig(lines, ldf, s.sku) # {}
        /\ LET idx == BestLine(lines, ldf, changeover, s.sku)
               co_min == chg(changeover, ldf[idx].last_sku, s.sku)
               can == ldf[idx].remaining_cases
               make == Min(qty, can)
           IN /\ ldf' = [ldf EXCEPT ![idx] =
                           [remaining_cases |-> can - make, last_sku |-> s.sku]]
              /\ sched_rows' = Append(sched_rows,
                   [date |-> day, line_id |-> LineIds[idx], sku |-> s.sku,
                    planned_qty_cases |-> make, unmet_qty_cases |-> qty - make,
                    plan_source |-> "AUTO", changeover_min |-> co_min,
                    flags |-> ""])
  /\ pos' = pos + 1
  /\ UNCHANGED <<orders, lines, changeover, policy_status, sku_need, pc>>
  /\ UNCHANGED <<mainVars, mrpVars, dataVars>>

\* Lines 143-144: the loop is over, the rows are returned.
Return ==
  /\ pc = "loop"
  /\ pos = Len(sku_need)
  /\ pc' = "done"
  /\ UNCHANGED <<orders, lines, changeover, policy_status, sku_need, ldf,
                 sched_rows, pos>>
  /\ UNCHANGED <<mainVars, mrpVars, dataVars>>

(* ---------------------------------------------------------------------- *)
(* Properties of schedule_day                                              *)
(* ---------------------------------------------------------------------- *)
\* Total demand of a SKU: the sum of qty_cases over the day's orders of it.
Demand(s) ==
  SetSum([i \in DOMAIN orders |-> orders[i].qty_cases],
         {i \in DOMAIN orders : orders[i].sku = s})

\* Priority key of a SKU: the maximum score of its orders.
PriorityKey(s) ==
  SetMax({OrderScore(orders, policy_status, i) :
            i \in {j \in DOMAIN orders : orders[j].sku = s}})

\* Position of the first order of a SKU in the orders input.
FirstSeen(s) ==
  CHOOSE i \in DOMAIN orders :
    orders[i].sku = s /\ \A j \in 1..(i - 1) : orders[j].sku # s

OrderSkus == {orders[i].sku : i \in DOMAIN orders}

RowsOf(s) == {k \in DOMAIN sched_rows : sched_rows[k].sku = s}

\* C1: after every step of schedule_day each line's remaining capacity is
\* at least 0 and at most the line's computed capacity
\* (rate_cph * shift_hours - rate_cph * downtime_min / 60, floored at 0),
\* and no step increases a line's remaining capacity.
C1_RemainingWithinCapacity ==
  [][\A i \in DOMAIN ldf' :
        /\ ldf'[i].remaining_cases >= 0
        /\ 60 * ldf'[i].remaining_cases <= Max(Capacity60(lines'[i]), 0)
        /\ i \in DOMAIN ldf => ldf'[i].remaining_cases <= ldf[i].remaining_cases]_vars

\* A run has ended in which a line with a fractional capacity has been
\* used up, next to a line whose computed capacity is negative.
C1_Witness ==
  /\ pc = "done"
  /\ \E i \in DOMAIN ldf :
       /\ Capacity60(lines[i]) % 60 # 0
       /\ Capacity60(lines[i]) > 0
       /\ ldf[i].remaining_cases < InitialRemaining(lines[i])
  /\ \E j \in DOMAIN ldf : Capacity60(lines[j]) < 0

\* C2: every emitted row has planned + unmet = the total demand of its SKU
\* over the day's orders, with both quantities non-negative.
C2_PlannedPlusUnmet ==
  \A k \in DOMAIN sched_rows :
    /\ sched_rows[k].planned_qty_cases + sched_rows[k].unmet_qty_cases
         = Demand(sched_rows[k].sku)
    /\ sched_rows[k].planned_qty_cases >= 0
    /\ sched_rows[k].unmet_qty_cases >= 0

\* A SKU with two orders got a row with a planned and an unmet part.
C2_Witness ==
  \E k \in DOMAIN sched_rows :
    /\ sched_rows[k].planned_qty_cases > 0
    /\ sched_rows[k].unmet_qty_cases > 0
    /\ Cardinality({i \in DOMAIN orders : orders[i].sku = sched_rows[k].sku}) = 2

\* C3: no SKU ever has two rows, rows are only of SKUs that were ordered,
\* and at the end of the run every ordered SKU has exactly one row, so a
\* shortfall stays unmet on that row and is not moved to another line.
C3_OneRowPerSku ==
  /\ \A k \in DOMAIN sched_rows : sched_rows[k].sku \in OrderSkus
  /\ \A s \in OrderSkus : Cardinality(RowsOf(s)) <= 1
  /\ pc = "done" => \A s \in OrderSkus : Cardinality(RowsOf(s)) = 1

\* The run has ended with a shortfall on a row although another line that
\* is eligible for the SKU still has capacity left.
C3_Witness ==
  /\ pc = "done"
  /\ \E k \in DOMAIN sched_rows :
       /\ sched_rows[k].plan_source = "AUTO"
       /\ sched_rows[k].unmet_qty_cases > 0
       /\ \E i \in DOMAIN ldf :
            /\ LineIds[i] # sched_rows[k].line_id
            /\ sched_rows[k].sku \in lines[i].eligible_skus
            /\ ldf[i].remaining_cases > 0

\* C4: a step emits the UNASSIGNED row (planned 0, unmet = full demand,
\* changeover 0, reason CAPACITY_OR_ELIGIBILITY) exactly when no line both
\* lists the SKU and has remaining capacity > 0 at that moment; such a step
\* leaves every line's state alone; and every step emits one row and moves
\* on to the next group.
C4_UnassignedIffNoLine ==
  [][pc = "loop" /\ pos < Len(sku_need) =>
       LET s == sku_need[pos + 1]
           row == sched_rows'[Len(sched_rows')]
           none == ~ \E i \in DOMAIN lines :
                       s.sku \in lines[i].eligible_skus /\ ldf[i].remaining_cases > 0
       IN /\ pos' = pos + 1
          /\ Len(sched_rows') = Len(sched_rows) + 1
          /\ row.sku = s.sku
          /\ (row.line_id = "UNASSIGNED") <=> none
          /\ none =>
               /\ row.planned_qty_cases = 0
               /\ row.unmet_qty_cases = Demand(s.sku)
               /\ row.changeover_min = 0
               /\ row.flags = "CAPACITY_OR_ELIGIBILITY"
               /\ ldf' = ldf]_vars

\* A SKU was left unassigned although a line lists it (the line had no
\* capacity left), and the group after it was assigned.
C4_Witness ==
  \E k \in DOMAIN sched_rows :
    /\ sched_rows[k].line_id = "UNASSIGNED"
    /\ \E i \in DOMAIN lines : sched_rows[k].sku \in lines[i].eligible_skus
    /\ k + 1 \in DOMAIN sched_rows
    /\ sched_rows[k + 1].line_id # "UNASSIGNED"

\* C5 as stated: rows come by priority key descending, then total quantity
\* descending, then in the order in which the SKUs first appear in the
\* orders.
C5_FirstSeenOrder ==
  \A k \in DOMAIN sched_rows : \A m \in DOMAIN sched_rows :
    k < m =>
      LET a == sched_rows[k].sku
          b == sched_rows[m].sku
      IN \/ PriorityKey(a) > PriorityKey(b)
         \/ PriorityKey(a) = PriorityKey(b) /\ Demand(a) > Demand(b)
         \/ /\ PriorityKey(a) = PriorityKey(b)
            /\ Demand(a) = Demand(b)
            /\ FirstSeen(a) < FirstSeen(b)

\* C5, amended: rows come by priority key descending, then total quantity
\* descending, and groups equal on both in ascending order of their SKU
\* identifier (the order in which groupby delivers the groups).
C5_SkuOrder ==
  \A k \in DOMAIN sched_rows : \A m \in DOMAIN sched_rows :
    k < m =>
      LET a == sched_rows[k].sku
          b == sched_rows[m].sku
      IN \/ PriorityKey(a) > PriorityKey(b)
         \/ PriorityKey(a) = PriorityKey(b) /\ Demand(a) > Demand(b)
         \/ /\ PriorityKey(a) = PriorityKey(b)
            /\ Demand(a) = Demand(b)
            /\ a < b

\* Two groups equal on priority key and total quantity were processed, the
\* one whose SKU was seen later in the orders first.
C5_Witness ==
  /\ Len(sched_rows) >= 2
  /\ LET a == sched_rows[1].sku
         b == sched_rows[2].sku
     IN /\ PriorityKey(a) = PriorityKey(b)
        /\ Demand(a) = Demand(b)
        /\ FirstSeen(a) > FirstSeen(b)

\* Indices of the rows emitted so far on the line with index i.
LineRows(i) == {k \in DOMAIN sched_rows : sched_rows[k].line_id = LineIds[i]}

\* C13: when at least one line lists the SKU and has remaining capacity
\* > 0, the step assigns the SKU to a line that lists it and has capacity,
\* whose score = remaining - changeover x median rate / 60 - changeover x 10
\* (from the line states before the step) is the highest, and which is the
\* first line of the lines table with that score; the planned quantity is
\* min(demand, that line's remaining capacity).
C13_BestLineFirstOnTie ==
  [][pc = "loop" /\ pos < Len(sku_need) =>
       LET s == sku_need[pos + 1].sku
           cand == {i \in DOMAIN lines :
                      s \in lines[i].eligible_skus /\ ldf[i].remaining_cases > 0}
           co(i) == IF ldf[i].last_sku = NoSku THEN 0
                    ELSE IF <<ldf[i].last_sku, s>> \in DOMAIN changeover
                         THEN changeover[<<ldf[i].last_sku, s>>]
                         ELSE 60
           \* 120 x score: the median of the rates is Median2 / 2.
           score(i) == 120 * ldf[i].remaining_cases
                         - co(i) * Median2(lines) - 1200 * co(i)
           row == sched_rows'[Len(sched_rows')]
       IN cand # {} =>
            \E i \in cand :
              /\ row.sku = s
              /\ row.line_id = LineIds[i]
              /\ \A j \in cand : score(i) >= score(j)
              /\ \A j \in cand : j < i => score(j) < score(i)
              /\ row.planned_qty_cases = Min(Demand(s), ldf[i].remaining_cases)]_vars

\* The first SKU went to the first of two lines that tied on the top score
\* (both list it, equal capacity, no changeover yet); the second SKU, which
\* both lines list too, then went to the second line, whose score had
\* become the higher one.
C13_Witness ==
  /\ Len(sched_rows) = 2
  /\ sched_rows[1].line_id = LineIds[1]
  /\ sched_rows[2].line_id = LineIds[2]
  /\ InitialRemaining(lines[1]) = InitialRemaining(lines[2])
  /\ \A k \in 1..2 : \A i \in 1..2 : sched_rows[k].sku \in lines[i].eligible_skus
  /\ ldf[1].remaining_cases > 0

\* C14: the changeover_min of every AUTO row is 0 when no earlier row of
\* the run is on the row's line, otherwise the matrix entry for (SKU of the
\* latest earlier row on that line, the row's SKU), or 60 when the matrix
\* has no such pair; and a line's last-SKU is the SKU of the latest row on
\* it (none before its first assignment).
C14_ChangeoverFromPrevious ==
  /\ \A k \in DOMAIN sched_rows :
       sched_rows[k].plan_source = "AUTO" =>
         LET prev == {m \in 1..(k - 1) :
                        sched_rows[m].line_id = sched_rows[k].line_id}
             pair == <<sched_rows[SetMax(prev)].sku, sched_rows[k].sku>>
         IN sched_rows[k].changeover_min =
              IF prev = {} THEN 0
              ELSE IF pair \in DOMAIN changeover THEN changeover[pair]
              ELSE 60
  /\ \A i \in DOMAIN ldf :
       ldf[i].last_sku =
         IF LineRows(i) = {} THEN NoSku
         ELSE sched_rows[SetMax(LineRows(i))].sku

\* A line got a second SKU whose pair with the first is missing from the
\* matrix, and the row carries the default of 60 minutes.
C14_Witness ==
  \E k \in DOMAIN sched_rows : \E m \in 1..(k - 1) :
    /\ sched_rows[k].plan_source = "AUTO"
    /\ sched_rows[m].line_id = sched_rows[k].line_id
    /\ <<sched_rows[m].sku, sched_rows[k].sku>> \notin DOMAIN changeover
    /\ sched_rows[k].changeover_min = 60

\* C15: once the line states exist, each line's remaining capacity is its
\* initial integer capacity (the computed capacity floored at 0 and
\* truncated) minus the planned quantities of the rows on that line so far,
\* whatever changeover minutes those rows carry; and a step leaves the
\* state of every line other than the one named on its row unchanged.
C15_RemainingIsCapacityMinusPlanned ==
  [][pc' \in {"loop", "done"} =>
       /\ \A i \in DOMAIN ldf' :
            ldf'[i].remaining_cases =
              Max(Capacity60(lines'[i]), 0) \div 60
                - SetSum([k \in DOMAIN sched_rows' |->
                            sched_rows'[k].planned_qty_cases],
                         {k \in DOMAIN sched_rows' :
                            sched_rows'[k].line_id = LineIds[i]})
       /\ (pc = "loop" /\ pos < Len(sku_need)) =>
            \A i \in DOMAIN ldf :
              LineIds[i] # sched_rows'[Len(sched_rows')].line_id =>
                ldf'[i] = ldf[i]]_vars

\* The run has ended with two rows on one line, the second carrying
\* changeover minutes, and the line still has capacity left.
C15_Witness ==
  /\ pc = "done"
  /\ \E i \in DOMAIN ldf :
       /\ Cardinality(LineRows(i)) = 2
       /\ sched_rows[SetMax(LineRows(i))].changeover_min > 0
       /\ ldf[i].remaining_cases > 0

(* ---------------------------------------------------------------------- *)
(* Scheduler run: inputs                                                   *)
(* ---------------------------------------------------------------------- *)
\* SKUs of the FG inventory, in row order.
FgSkus == <<1, 2>>

OnHandPool == {5, 50, 100, 150}

\* Forecast rows of one SKU (date relative to today, cases): none; average
\* 10 in the window with rows just outside it; average 22; average 3.5.
ForecastProfiles ==
  { {},
    { [date |-> 0, forecast_cases |-> 8], [date |-> 6, forecast_cases |-> 12],
      [date |-> 7, forecast_cases |-> 1000], [date |-> -1, forecast_cases |-> 500] },
    { [date |-> 2, forecast_cases |-> 22] },
    { [date |-> 0, forecast_cases |-> 3], [date |-> 1, forecast_cases |-> 4] } }

ForecastRows(s, profile) ==
  { [sku |-> s, date |-> r.date, forecast_cases |-> r.forecast_cases] : r \in profile }

\* Policy rows: consistent thresholds, and inconsistent ones (min > max).
PolicyRows ==
  { [min_dos |-> 6, target_dos |-> 10, max_dos |-> 14,
     moq_cases |-> 200, pack_rounding |-> 60],
    [min_dos |-> 14, target_dos |-> 7, max_dos |-> 6,
     moq_cases |-> 3, pack_rounding |-> 7] }

\* Policy tables: every subset of the FG SKUs may have a row.
PolicyTables ==
  UNION { [S -> PolicyRows] : S \in SUBSET {FgSkus[i] : i \in DOMAIN FgSkus} }

\* Length of the forecast window [today, today + 7).
WindowDays == 7

\* A threshold of a SKU without policy row after the left merge (NaN).
NaN == -1

SchedulerOutputs ==
  {"daily_production_schedule", "plan_by_sku_day", "forecast_override_log",
   "inventory_policy_snapshot"}

MrpOutputs == {"mrp_requirements", "mrp_exception_report"}

(* ---------------------------------------------------------------------- *)
(* Scheduler run: build_policy_status and the replenishment plan           *)
(* ---------------------------------------------------------------------- *)
\* fc7: the forecast rows of the SKU with today <= date < today + 7.
Fc7(fc, s, today) ==
  {r \in fc : r.sku = s /\ r.date >= today /\ r.date < today + WindowDays}

\* avg_daily_fcst_7d as a fraction: the mean over the window, 1.0 when the
\* SKU has no row in it (fillna).
AvgDailyFcst(fc, s, today) ==
  LET w == Fc7(fc, s, today)
      rows == SortedSeqOf({r.date : r \in w})
      cases == [i \in DOMAIN rows |->
                  (CHOOSE r \in w : r.date = rows[i]).forecast_cases]
  IN IF w = {} THEN [num |-> 1, den |-> 1]
     ELSE [num |-> SumSeq(cases, Len(rows)), den |-> Len(rows)]

\* The policy columns of the left merge: NaN for a SKU without policy row.
PolicyCol(pol, s, col) == IF s \in DOMAIN pol THEN pol[s][col] ELSE NaN

\* dos = on_hand_cases / avg_daily_fcst_7d, as a fraction.
Dos(on_hand, avg) == [num |-> on_hand * avg.den, den |-> avg.num]

\* stat(r): a comparison with NaN is false.
stat_YellowFirst(dos, min_dos, max_dos) ==
  IF max_dos # NaN /\ dos.num > max_dos * dos.den THEN "YELLOW"
  ELSE IF min_dos # NaN /\ dos.num < min_dos * dos.den THEN "RED"
  ELSE "GREEN"

stat(dos, min_dos, max_dos) ==
  IF min_dos # NaN /\ dos.num < min_dos * dos.den THEN "RED"
  ELSE IF max_dos # NaN /\ dos.num > max_dos * dos.den THEN "YELLOW"
  ELSE "GREEN"

build_policy_status(fg, fc, pol, today) ==
  [i \in DOMAIN fg |->
     LET s == fg[i].sku
         dos == Dos(fg[i].on_hand_cases, AvgDailyFcst(fc, s, today))
     IN [sku |-> s, dos |-> dos,
         min_dos |-> PolicyCol(pol, s, "min_dos"),
         target_dos |-> PolicyCol(pol, s, "target_dos"),
         max_dos |-> PolicyCol(pol, s, "max_dos"),
         policy_status |-> stat(dos, PolicyCol(pol, s, "min_dos"),
                                PolicyCol(pol, s, "max_dos"))]]

\* round() of the non-negative fraction num / den: ties go to the even
\* neighbour.
RoundHalfEven(num, den) ==
  LET q == num \div den
      r == num % den
  IN IF 2 * r > den THEN q + 1
     ELSE IF 2 * r < den THEN q
     ELSE IF q % 2 = 0 THEN q ELSE q + 1

\* Lines 176-179: the merged table with target_qty and gap_cases.
GapTable(fg, fc, pol, today) ==
  [i \in DOMAIN fg |->
     LET s == fg[i].sku
         avg == AvgDailyFcst(fc, s, today)
         target_qty == RoundHalfEven(pol[s].target_dos * avg.num, avg.den)
     IN [sku |-> s, on_hand_cases |-> fg[i].on_hand_cases,
         moq_cases |-> pol[s].moq_cases,
         pack_rounding |-> pol[s].pack_rounding,
         target_qty |-> target_qty,
         gap_cases |-> Max(target_qty - fg[i].on_hand_cases, 0)]]

\* ceil(a / b) for a >= 0, b > 0.
Ceil(a, b) == (a + b - 1) \div b

\* Lines 187-189: MOQ, then rounding up to the pack-rounding unit.
RoundedGap_Floor(gap, moq_cases, pack_rounding) ==
  LET g == Max(gap, moq_cases)
      rnd == Max(1, pack_rounding)
  IN (g \div rnd) * rnd

RoundedGap(gap, moq_cases, pack_rounding) ==
  LET g == Max(gap, moq_cases)
      rnd == Max(1, pack_rounding)
  IN Ceil(g, rnd) * rnd

\* splits = [0.45, 0.35, 0.20], in twentieths.
Splits20 == <<9, 7, 4>>

\* Totals up to 400 whose product with the double 0.35 falls just below a
\* .5 tie (90 * 0.35 is 31.499999999999996); no product with 0.45 or 0.20
\* leaves its tie.
BelowTie35 == {90, 170, 330, 350}

\* int(round(gap * frac)) for the i-th fraction: the nearest integer of the
\* double product, ties to even.
SplitQty_Truncate(gap, i) == (Splits20[i] * gap) \div 20

SplitQty(gap, i) ==
  IF i = 2 /\ gap \in BelowTie35 THEN (Splits20[i] * gap) \div 20
  ELSE RoundHalfEven(Splits20[i] * gap, 20)

\* Lines 190-196: the plan rows of one SKU for the rounded gap.
RECURSIVE SplitRows(_, _, _, _)
SplitRows(today, s, gap, i) ==
  IF i > Len(Splits20) THEN <<>>
  ELSE LET q == SplitQty(gap, i)
           row == [date |-> today + (i - 1), sku |-> s, planned_qty_cases |-> q]
       IN (IF q > 0 THEN <<row>> ELSE <<>>) \o SplitRows(today, s, gap, i + 1)

\* Lines 182-196: the loop over the rows of the gap table, from row i on.
RECURSIVE PlanRows(_, _, _)
PlanRows(today, tbl, i) ==
  IF i > Len(tbl) THEN <<>>
  ELSE LET r == tbl[i]
       IN (IF r.gap_cases <= 0 THEN <<>>
           ELSE SplitRows(today, r.sku,
                  RoundedGap(r.gap_cases, r.moq_cases, r.pack_rounding), 1))
          \o PlanRows(today, tbl, i + 1)

\* The loop's gap after rounding, for the SKUs that get past `continue`.
GapTotals(tbl) ==
  LET idx == {i \in DOMAIN tbl : tbl[i].gap_cases > 0}
  IN [s \in {tbl[i].sku : i \in idx} |->
        LET r == tbl[CHOOSE i \in idx : tbl[i].sku = s]
        IN RoundedGap(r.gap_cases, r.moq_cases, r.pack_rounding)]

MainInit ==
  /\ inputs_present \in BOOLEAN
  /\ fg_inv \in { [i \in DOMAIN FgSkus |-> [sku |-> FgSkus[i], on_hand_cases |-> oh[i]]] :
                     oh \in [DOMAIN FgSkus -> OnHandPool] }
  /\ forecast \in { UNION {ForecastRows(FgSkus[i], f[i]) : i \in DOMAIN FgSkus} :
                      f \in [DOMAIN FgSkus -> ForecastProfiles] }
  /\ policy \in PolicyTables
  /\ pol_stat = <<>>
  /\ inv = <<>>
  /\ gap_total = <<>>
  /\ plan_rows = <<>>
  /\ results = {}
  /\ m_pc = "start"
  /\ mrp_pc = "idle"

MainIdle ==
  /\ inputs_present = TRUE
  /\ fg_inv = <<>>
  /\ forecast = {}
  /\ policy = <<>>
  /\ pol_stat = <<>>
  /\ inv = <<>>
  /\ gap_total = <<>>
  /\ plan_rows = <<>>
  /\ results = {}
  /\ m_pc = "idle"
  /\ mrp_pc = "idle"

\* No scheduling pass in progress, with the changeover matrix ch at hand.
SchedIdleWith(ch) ==
  /\ orders = <<>>
  /\ lines = <<>>
  /\ changeover = ch
  /\ policy_status = <<>>
  /\ sku_need = <<>>
  /\ ldf = <<>>
  /\ sched_rows = <<>>
  /\ pos = 0
  /\ pc = "idle"

SchedIdle == SchedIdleWith(<<>>)

\* Lines 147-157: the input tables are read; a missing one ends the run.
MainRead ==
  /\ m_pc = "start"
  /\ m_pc' = IF inputs_present THEN "policy" ELSE "failed"
  /\ UNCHANGED <<inputs_present, fg_inv, forecast, policy, pol_stat, inv,
                 gap_total, plan_rows, results, mrp_pc>>
  /\ UNCHANGED <<schedVars, mrpVars, dataVars>>

\* Line 158.
MainPolicyStatus ==
  /\ m_pc = "policy"
  /\ pol_stat' = build_policy_status(fg_inv, forecast, policy, day)
  /\ m_pc' = "schedule"
  /\ UNCHANGED <<inputs_present, fg_inv, forecast, policy, inv, gap_total,
                 plan_rows, results, mrp_pc>>
  /\ UNCHANGED <<schedVars, mrpVars, dataVars>>

\* Lines 161-170: the day is scheduled (schedule_day, see Spec) and the
\* schedule is written.
MainSchedule ==
  /\ m_pc = "schedule"
  /\ results' = results \cup {"daily_production_schedule"}
  /\ m_pc' = "gap"
  /\ UNCHANGED <<inputs_present, fg_inv, forecast, policy, pol_stat, inv,
                 gap_total, plan_rows, mrp_pc>>
  /\ UNCHANGED <<schedVars, mrpVars, dataVars>>

\* Lines 174-179: the gap table. astype(int) raises on the NaN target of an
\* FG SKU that has no policy row.
MainGap ==
  /\ m_pc = "gap"
  /\ IF \A i \in DOMAIN fg_inv : fg_inv[i].sku \in DOMAIN policy
     THEN /\ inv' = GapTable(fg_inv, forecast, policy, day)
          /\ m_pc' = "plan"
     ELSE /\ inv' = inv
          /\ m_pc' = "failed"
  /\ UNCHANGED <<inputs_present, fg_inv, forecast, policy, pol_stat, gap_total,
                 plan_rows, results, mrp_pc>>
  /\ UNCHANGED <<schedVars, mrpVars, dataVars>>

\* Lines 181-197: the plan rows.
MainPlan ==
  /\ m_pc = "plan"
  /\ plan_rows' = PlanRows(day, inv, 1)
  /\ gap_total' = GapTotals(inv)
  /\ m_pc' = "write_plan"
  /\ UNCHANGED <<inputs_present, fg_inv, forecast, policy, pol_stat, inv,
                 results, mrp_pc>>
  /\ UNCHANGED <<schedVars, mrpVars, dataVars>>

\* Line 198.
MainWritePlan ==
  /\ m_pc = "write_plan"
  /\ results' = results \cup {"plan_by_sku_day"}
  /\ m_pc' = "override"
  /\ UNCHANGED <<inputs_present, fg_inv, forecast, policy, pol_stat, inv,
                 gap_total, plan_rows, mrp_pc>>
  /\ UNCHANGED <<schedVars, mrpVars, dataVars>>

\* Lines 201-202.
MainWriteOverride ==
  /\ m_pc = "override"
  /\ results' = results \cup {"forecast_override_log"}
  /\ m_pc' = "snapshot"
  /\ UNCHANGED <<inputs_present, fg_inv, forecast, policy, pol_stat, inv,
                 gap_total, plan_rows, mrp_pc>>
  /\ UNCHANGED <<schedVars, mrpVars, dataVars>>

\* Line 205.
MainWriteSnapshot ==
  /\ m_pc = "snapshot"
  /\ results' = results \cup {"inventory_policy_snapshot"}
  /\ m_pc' = "done"
  /\ UNCHANGED <<inputs_present, fg_inv, forecast, policy, pol_stat, inv,
                 gap_total, plan_rows, mrp_pc>>
  /\ UNCHANGED <<schedVars, mrpVars, dataVars>>

(* ---------------------------------------------------------------------- *)
(* MRP run (main of 02_mrp_explode), after the scheduler run has ended     *)
(* ---------------------------------------------------------------------- *)
MaxPlanRows == 3

\* Materials, in the (alphabetical) order in which groupby sorts them.
MaterialOrder == <<"CAP", "FILM">>

\* The material of a merged row whose SKU has no BOM row (NaN).
NoMaterial == "NaN"

\* An empty eta_date (""): as a string it is below every date.
NoEta == -1000

\* Rows of plan_by_sku_day: two dates, the three SKUs.
PlanRowPool ==
  { [date |-> d, sku |-> x[1], planned_qty_cases |-> x[2]] :
      d \in {day, day + 1}, x \in {<<1, 500>>, <<1, 1000>>, <<2, 250>>, <<3, 100>>} }

PlanPool == UNION {[1..n -> PlanRowPool] : n \in 0..MaxPlanRows}

\* BOM tables: SKU 3 without rows; SKU 1 without rows.
BomPool ==
  { << [sku |-> 1, material |-> "CAP", usage_per_case |-> 1],
       [sku |-> 1, material |-> "FILM", usage_per_case |-> 1],
       [sku |-> 2, material |-> "CAP", usage_per_case |-> 2] >>,
    << [sku |-> 2, material |-> "FILM", usage_per_case |-> 1],
       [sku |-> 3, material |-> "CAP", usage_per_case |-> 10] >> }

\* Material inventories: on-order arriving after the first bucket, on-order
\* without arrival date, on-order arrived before the first bucket, and a
\* table without the row of CAP.
MatInvPool ==
  { << [material |-> "CAP", on_hand_qty |-> 800, on_order_qty |-> 300, eta_date |-> e],
       [material |-> "FILM", on_hand_qty |-> 400, on_order_qty |-> 0, eta_date |-> NoEta] >> :
      e \in {day + 1, NoEta, day - 1} }
  \cup { << [material |-> "FILM", on_hand_qty |-> 400, on_order_qty |-> 700,
             eta_date |-> day + 1] >> }

\* plan.merge(bom, on="sku", how="left") with req_qty: one row per plan row
\* and BOM row of its SKU; a plan row whose SKU has no BOM row stays, with
\* NaN for material, usage and req_qty.
MergeBom(plan_df, bom_df) ==
  { [row |-> p[1], bom_row |-> p[2],
     date |-> plan_df[p[1]].date, sku |-> plan_df[p[1]].sku,
     material |-> bom_df[p[2]].material,
     req_qty |-> plan_df[p[1]].planned_cases * bom_df[p[2]].usage_per_case] :
       p \in {q \in (DOMAIN plan_df) \X (DOMAIN bom_df) :
                bom_df[q[2]].sku = plan_df[q[1]].sku} }
  \cup
  { [row |-> i, bom_row |-> 0, date |-> plan_df[i].date, sku |-> plan_df[i].sku,
     material |-> NoMaterial, req_qty |-> NaN] :
       i \in {ii \in DOMAIN plan_df :
                \A jj \in DOMAIN bom_df : bom_df[jj].sku # plan_df[ii].sku} }

MatRank(m) == CHOOSE i \in DOMAIN MaterialOrder : MaterialOrder[i] = m

\* Order of the group keys (date, material).
DateMatBefore(a, b) ==
  \/ a[1] < b[1]
  \/ a[1] = b[1] /\ MatRank(a[2]) < MatRank(b[2])

mrp_explode_FirstRowOnly(plan_df, bom_df) ==
  LET merged == MergeBom(plan_df, bom_df)
      rows == {r \in merged : r.material # NoMaterial}
      keys == {<<r.date, r.material>> : r \in rows}
      rank(k) == Cardinality({kk \in keys : DateMatBefore(kk, k)}) + 1
  IN [n \in 1..Cardinality(keys) |->
        LET k == CHOOSE kk \in keys : rank(kk) = n
            grp == {r \in rows : r.date = k[1] /\ r.material = k[2]}
        IN [date |-> k[1], material |-> k[2],
            req_qty |-> (CHOOSE r \in grp : \A q \in grp : r.row <= q.row).req_qty]]

\* groupby(["date","material"]) drops the rows with a NaN key, sorts the
\* keys and sums req_qty within each group.
mrp_explode(plan_df, bom_df) ==
  LET merged == MergeBom(plan_df, bom_df)
      rows == {r \in merged : r.material # NoMaterial}
      keys == {<<r.date, r.material>> : r \in rows}
      rank(k) == Cardinality({kk \in keys : DateMatBefore(kk, k)}) + 1
  IN [n \in 1..Cardinality(keys) |->
        LET k == CHOOSE kk \in keys : rank(kk) = n
            grp == {r \in rows : r.date = k[1] /\ r.material = k[2]}
        IN [date |-> k[1], material |-> k[2],
            req_qty |-> SetSum([r \in grp |-> r.req_qty], grp)]]

material_availability_AnyOnOrder(material_inv, date) ==
  [i \in DOMAIN material_inv |->
     [material |-> material_inv[i].material,
      available_qty |-> material_inv[i].on_hand_qty + material_inv[i].on_order_qty,
      eta_date |-> material_inv[i].eta_date,
      on_order_qty |-> material_inv[i].on_order_qty,
      on_hand_qty |-> material_inv[i].on_hand_qty]]

material_availability(material_inv, date) ==
  [i \in DOMAIN material_inv |->
     LET r == material_inv[i]
     IN [material |-> r.material,
         available_qty |-> r.on_hand_qty +
            (IF r.eta_date # NoEta /\ r.eta_date <= date THEN r.on_order_qty ELSE 0),
         eta_date |-> r.eta_date,
         on_order_qty |-> r.on_order_qty,
         on_hand_qty |-> r.on_hand_qty]]

\* Lines 28-35 for one date: the requirement rows of the date merged with
\* the availability (a material without inventory row gets available 0 and
\* no eta), and the rows with a shortage kept.
ExceptionsOfDay(req_df, material_inv, d) ==
  LET avail == material_availability(material_inv, d)
      chk(r) ==
        LET hit == {i \in DOMAIN avail : avail[i].material = r.material}
            a == IF hit = {} THEN 0
                 ELSE avail[CHOOSE i \in hit : TRUE].available_qty
            eta == IF hit = {} THEN NoEta
                   ELSE avail[CHOOSE i \in hit : TRUE].eta_date
        IN [date |-> r.date, material |-> r.material, req_qty |-> r.req_qty,
            available_qty |-> a, short_qty |-> Max(r.req_qty - a, 0),
            earliest_eta |-> eta,
            suggested_action |-> "Expedite / Re-sequence / Substitute"]
      req_day == SelectSeq(req_df, LAMBDA r : r.date = d)
      all == [k \in DOMAIN req_day |-> chk(req_day[k])]
  IN SelectSeq(all, LAMBDA c : c.short_qty > 0)

RECURSIVE ConcatDays(_, _, _, _)
ConcatDays(req_df, material_inv, dates, n) ==
  IF n > Len(dates) THEN <<>>
  ELSE ExceptionsOfDay(req_df, material_inv, dates[n])
         \o ConcatDays(req_df, material_inv, dates, n + 1)

\* The date buckets in ascending order, each checked against material_inv.
build_mrp_exception(req_df, material_inv) ==
  ConcatDays(req_df, material_inv,
             SortedSeqOf({req_df[k].date : k \in DOMAIN req_df}), 1)

\* Line 50: planned_qty_cases renamed to planned_cases.
RenamePlan(plan) ==
  [i \in DOMAIN plan |->
     [date |-> plan[i].date, sku |-> plan[i].sku,
      planned_cases |-> plan[i].planned_qty_cases]]

\* No MRP run.
MrpIdle ==
  /\ bom = <<>>
  /\ mat_inv = <<>>
  /\ req = <<>>
  /\ exc = <<>>

\* The BOM and material inventory found by the MRP run that follows a
\* scheduler run.
MrpTablesMain ==
  /\ bom = << [sku |-> 1, material |-> "CAP", usage_per_case |-> 1],
              [sku |-> 2, material |-> "CAP", usage_per_case |-> 2] >>
  /\ mat_inv = << [material |-> "CAP", on_hand_qty |-> 800, on_order_qty |-> 300,
                   eta_date |-> day + 1] >>
  /\ req = <<>>
  /\ exc = <<>>

\* An MRP run on its own: a plan is in the results directory.
MrpInit ==
  /\ inputs_present = TRUE
  /\ fg_inv = <<>>
  /\ forecast = {}
  /\ policy = <<>>
  /\ pol_stat = <<>>
  /\ inv = <<>>
  /\ gap_total = <<>>
  /\ plan_rows \in PlanPool
  /\ results = SchedulerOutputs
  /\ m_pc = "done"
  /\ mrp_pc = "idle"
  /\ bom \in BomPool
  /\ mat_inv \in MatInvPool
  /\ req = <<>>
  /\ exc = <<>>

\* Lines 41-48: the plan must exist; then the tables are read.
MrpStart ==
  /\ m_pc \in {"done", "failed"}
  /\ mrp_pc = "idle"
  /\ mrp_pc' = IF "plan_by_sku_day" \in results THEN "compute" ELSE "failed"
  /\ UNCHANGED <<inputs_present, fg_inv, forecast, policy, pol_stat, inv,
                 gap_total, plan_rows, results, m_pc>>
  /\ UNCHANGED <<schedVars, mrpVars, dataVars>>

\* Lines 50-51: requirements and exceptions are computed in memory.
MrpCompute ==
  /\ mrp_pc = "compute"
  /\ req' = mrp_explode(RenamePlan(plan_rows), bom)
  /\ exc' = build_mrp_exception(req', mat_inv)
  /\ mrp_pc' = "write_req"
  /\ UNCHANGED <<inputs_present, fg_inv, forecast, policy, pol_stat, inv,
                 gap_total, plan_rows, results, m_pc>>
  /\ UNCHANGED <<bom, mat_inv>>
  /\ UNCHANGED <<schedVars, dataVars>>

\* Line 53.
MrpWriteReq ==
  /\ mrp_pc = "write_req"
  /\ results' = results \cup {"mrp_requirements"}
  /\ mrp_pc' = "write_exc"
  /\ UNCHANGED <<inputs_present, fg_inv, forecast, policy, pol_stat, inv,
                 gap_total, plan_rows, m_pc>>
  /\ UNCHANGED <<schedVars, mrpVars, dataVars>>

\* Line 54.
MrpWriteExc ==
  /\ mrp_pc = "write_exc"
  /\ results' = results \cup {"mrp_exception_report"}
  /\ mrp_pc' = "done"
  /\ UNCHANGED <<inputs_present, fg_inv, forecast, policy, pol_stat, inv,
                 gap_total, plan_rows, m_pc>>
  /\ UNCHANGED <<schedVars, mrpVars, dataVars>>

MrpNext == MrpStart \/ MrpCompute \/ MrpWriteReq \/ MrpWriteExc

MainNext ==
  \/ MainRead \/ MainPolicyStatus \/ MainSchedule \/ MainGap \/ MainPlan
  \/ MainWritePlan \/ MainWriteOverride \/ MainWriteSnapshot
  \/ MrpStart \/ MrpCompute \/ MrpWriteReq \/ MrpWriteExc

(* ---------------------------------------------------------------------- *)
(* The plan loop on its own, over ranges of gap, MOQ and pack rounding     *)
(* ---------------------------------------------------------------------- *)
MaxGap == 230
MaxMoq == 204
MaxRnd == 26

\* Smallest MOQ and pack rounding the data provider draws.
MinMoq == 200
MinRnd == 20

\* (gap, MOQ, pack rounding): ranges from the provider's smallest MOQ and
\* rounding on, and single rows: the documented example, a total whose
\* 0.35 share falls below a tie, a rounding unit below 1, an MOQ below the
\* gap's rounding.
PlanInputs ==
  ((0..MaxGap) \X (MinMoq..MaxMoq) \X (MinRnd..MaxRnd))
    \cup {<<120, 200, 60>>, <<330, 200, 30>>, <<5, 0, 0>>, <<2, 3, 1>>}

PlanInit ==
  /\ inputs_present = TRUE
  /\ fg_inv = <<>>
  /\ forecast = {}
  /\ policy = <<>>
  /\ pol_stat = <<>>
  /\ inv \in { << [sku |-> 1, on_hand_cases |-> 0, moq_cases |-> x[2],
                   pack_rounding |-> x[3], target_qty |-> x[1],
                   gap_cases |-> x[1]] >> : x \in PlanInputs }
  /\ gap_total = <<>>
  /\ plan_rows = <<>>
  /\ results = {"daily_production_schedule"}
  /\ m_pc = "plan"
  /\ mrp_pc = "idle"

(* ---------------------------------------------------------------------- *)
(* Data provider: _changeover, and chg on a matrix                         *)
(* ---------------------------------------------------------------------- *)
\* SKUs of the generated catalog, and the pairs in loop order.
GenSkus == <<1, 2>>
GenPairs == <<<<1, 1>>, <<1, 2>>, <<2, 1>>, <<2, 2>>>>

FamPool == { <<"16.9oz|24pk|PET", "16.9oz|24pk|PET">>,
             <<"16.9oz|24pk|PET", "1L|12pk|PET">> }

\* RNG.integers(10, 25), RNG.integers(30, 90), RNG.integers(-3, 4)
SameFamilyDraw == 10..24
OtherFamilyDraw == 30..89
NoiseDraw == -3..3

DataInit ==
  /\ fam \in FamPool
  /\ gen_rows = <<>>
  /\ gen_pos = 0
  /\ chg_result = <<>>
  /\ d_pc = "start"

DataIdle ==
  /\ fam = <<>>
  /\ gen_rows = <<>>
  /\ gen_pos = 0
  /\ chg_result = <<>>
  /\ d_pc = "idle"

\* Lines 68-78: one pair of the double loop.
GenPair ==
  /\ d_pc \in {"start", "gen"}
  /\ gen_pos < Len(GenPairs)
  /\ LET a == GenPairs[gen_pos + 1][1]
         b == GenPairs[gen_pos + 1][2]
     IN \E base \in (IF a = b THEN {0}
                     ELSE IF fam[a] = fam[b] THEN SameFamilyDraw
                     ELSE OtherFamilyDraw) :
          \E noise \in NoiseDraw :
            gen_rows' = (<<a, b>> :> Max(0, base + noise)) @@ gen_rows
  /\ gen_pos' = gen_pos + 1
  /\ d_pc' = "gen"
  /\ UNCHANGED <<fam, chg_result>>
  /\ UNCHANGED <<schedVars, mainVars, mrpVars>>

\* Line 79 and main's to_csv: the matrix the scheduler will read.
GenWrite ==
  /\ d_pc = "gen"
  /\ gen_pos = Len(GenPairs)
  /\ changeover' = gen_rows
  /\ d_pc' = "written"
  /\ UNCHANGED <<fam, gen_rows, gen_pos, chg_result>>
  /\ UNCHANGED <<orders, lines, policy_status, sku_need, ldf, sched_rows, pos, pc>>
  /\ UNCHANGED <<mainVars, mrpVars>>

\* chg(a, b) for every pair, on the matrix at hand: the hand-made sparse
\* one before the provider has run, the generated one after.
ChgLookups ==
  /\ d_pc \in {"start", "written"}
  /\ chg_result' = [p \in (Skus \cup {NoSku}) \X Skus |->
                      chg(changeover, p[1], p[2])]
  /\ d_pc' = "looked"
  /\ UNCHANGED <<fam, gen_rows, gen_pos>>
  /\ UNCHANGED <<schedVars, mainVars, mrpVars>>

DataNext == GenPair \/ GenWrite \/ ChgLookups

Init == SchedInit /\ MainIdle /\ MrpIdle /\ DataIdle

Next == Prepare \/ StepUnassigned \/ StepAssign \/ Return

Spec == Init /\ [][Next]_vars

\* The scheduler run followed by the MRP run.
InitMain == SchedIdle /\ MainInit /\ MrpTablesMain /\ DataIdle

SpecMain == InitMain /\ [][MainNext]_vars

\* The plan loop over ranges of its inputs.
InitPlan == SchedIdle /\ PlanInit /\ MrpIdle /\ DataIdle

NextPlan == MainPlan

SpecPlan == InitPlan /\ [][NextPlan]_vars

\* The data provider's matrix and the changeover lookups.
InitData == SchedIdleWith(ChSparse) /\ MainIdle /\ MrpIdle /\ DataInit

SpecData == InitData /\ [][DataNext]_vars

\* The MRP run on a plan, a BOM and a material inventory.
InitMrp == SchedIdle /\ MrpInit /\ DataIdle

SpecMrp == InitMrp /\ [][MrpNext]_vars


(* ---------------------------------------------------------------------- *)
(* Properties of the scheduler run, the MRP run and the plan loop          *)
(* ---------------------------------------------------------------------- *)
\* C6: a run either emits all of its output tables or aborts before any:
\* neither the scheduler run nor the MRP run fails after one of its output
\* tables has been written.
C6_AllOrNothing ==
  /\ m_pc = "failed" => results \cap SchedulerOutputs = {}
  /\ mrp_pc = "failed" => results \cap MrpOutputs = {}

\* The forecast rows of a SKU that lie in [today, today + 7).
InWindow(s) ==
  {r \in forecast : r.sku = s /\ day <= r.date /\ r.date <= day + 6}

WindowSum(s) == SetSum([r \in InWindow(s) |-> r.forecast_cases], InWindow(s))

\* C8: build_policy_status returns one row per SKU of the FG inventory, in
\* its order, with DOS = on_hand / average forecast over [today, today+7)
\* (average 1.0 without a forecast row in the window) and, for a SKU with a
\* policy row, RED if DOS < min_dos, otherwise YELLOW if DOS > max_dos,
\* otherwise GREEN, so RED wins when both hold; with average 10, min 6 and
\* max 14, on-hand 50 is RED, 150 YELLOW and 100 GREEN.
C8_PolicyStatus ==
  m_pc \in {"schedule", "gap", "plan", "write_plan", "override", "snapshot", "done"} =>
    /\ Len(pol_stat) = Len(fg_inv)
    /\ \A i \in DOMAIN pol_stat :
         LET r == pol_stat[i]
             s == fg_inv[i].sku
             on_hand == fg_inv[i].on_hand_cases
             n == Cardinality(InWindow(s))
         IN /\ r.sku = s
            /\ r.dos.den > 0
            /\ IF n = 0 THEN r.dos.num = on_hand * r.dos.den
               ELSE r.dos.num * WindowSum(s) = on_hand * n * r.dos.den
            /\ r.policy_status \in {"RED", "YELLOW", "GREEN"}
            /\ s \in DOMAIN policy =>
                 LET below == r.dos.num < policy[s].min_dos * r.dos.den
                     above == r.dos.num > policy[s].max_dos * r.dos.den
                 IN /\ r.policy_status = "RED" <=> below
                    /\ r.policy_status = "YELLOW" <=> (~below /\ above)
                    /\ r.policy_status = "GREEN" <=> (~below /\ ~above)
            /\ (/\ s \in DOMAIN policy
                /\ n > 0
                /\ WindowSum(s) = 10 * n
                /\ policy[s].min_dos = 6
                /\ policy[s].max_dos = 14) =>
                 /\ on_hand = 50 => r.policy_status = "RED"
                 /\ on_hand = 150 => r.policy_status = "YELLOW"
                 /\ on_hand = 100 => r.policy_status = "GREEN"

\* The classifier has returned a RED row whose DOS is below min_dos and
\* above max_dos, next to the GREEN row of on-hand 100 at average 10 with
\* forecast rows just outside the window.
C8_Witness ==
  /\ Len(pol_stat) = 2
  /\ pol_stat[1].policy_status = "RED"
  /\ pol_stat[1].dos.num > pol_stat[1].max_dos * pol_stat[1].dos.den
  /\ pol_stat[2].policy_status = "GREEN"
  /\ fg_inv[2].on_hand_cases = 100
  /\ pol_stat[2].min_dos = 6
  /\ WindowSum(2) = 20
  /\ \E r \in forecast : r.sku = 2 /\ r.date = day + 7

PlanRowsOf(s) == {k \in DOMAIN plan_rows : plan_rows[k].sku = s}

\* C9: for every SKU with gap > 0 (and a pack-rounding unit of at least 1)
\* the total used for the plan is the smallest multiple of the
\* pack-rounding unit that is >= max(gap, MOQ); gap 120, MOQ 200, rounding
\* 60 gives 240; a SKU with gap 0 gets no plan rows.
C9_RoundedGap ==
  m_pc = "write_plan" =>
    \A i \in DOMAIN inv :
      LET r == inv[i]
          need == Max(r.gap_cases, r.moq_cases)
      IN /\ r.gap_cases > 0 <=> r.sku \in DOMAIN gap_total
         /\ (r.gap_cases > 0 /\ r.pack_rounding >= 1) =>
              /\ gap_total[r.sku] % r.pack_rounding = 0
              /\ gap_total[r.sku] >= need
              /\ gap_total[r.sku] - r.pack_rounding < need
         /\ (r.gap_cases = 120 /\ r.moq_cases = 200 /\ r.pack_rounding = 60) =>
              gap_total[r.sku] = 240
         /\ r.gap_cases = 0 => PlanRowsOf(r.sku) = {}

\* The plan of a SKU with gap 120, MOQ 200 and rounding 60 was made.
C9_Witness ==
  /\ m_pc = "write_plan"
  /\ \E i \in DOMAIN inv :
       /\ inv[i].gap_cases = 120
       /\ inv[i].moq_cases = 200
       /\ inv[i].pack_rounding = 60
       /\ gap_total[inv[i].sku] = 240
       /\ PlanRowsOf(inv[i].sku) # {}

\* The quantity planned for a SKU on a date (0 without a row).
PlannedOn(s, d) ==
  LET ks == {k \in PlanRowsOf(s) : plan_rows[k].date = d}
  IN IF ks = {} THEN 0 ELSE plan_rows[CHOOSE k \in ks : TRUE].planned_qty_cases

\* The rows of a SKU with rounded total g are those of today, today+1 and
\* today+2, one per date, carrying an integer nearest to g x 0.45,
\* g x 0.35 and g x 0.20, with no row for a zero quantity.
SplitAsRounded(s, g) ==
  /\ \A k \in PlanRowsOf(s) :
       /\ plan_rows[k].date \in day..(day + 2)
       /\ plan_rows[k].planned_qty_cases > 0
       /\ \A m \in PlanRowsOf(s) : plan_rows[m].date = plan_rows[k].date => m = k
  /\ \A i \in 1..3 :
       LET q == PlannedOn(s, day + i - 1)
       IN /\ 20 * q - Splits20[i] * g <= 10
          /\ Splits20[i] * g - 20 * q <= 10

PlanSum(s) ==
  PlannedOn(s, day) + PlannedOn(s, day + 1) + PlannedOn(s, day + 2)

\* C10 as stated: the rows of a SKU with rounded total G carry
\* round(G x 0.45), round(G x 0.35), round(G x 0.20) (zero omitted) and
\* sum to exactly G.
C10_SplitSumsToTotal ==
  m_pc = "write_plan" =>
    \A s \in DOMAIN gap_total :
      /\ SplitAsRounded(s, gap_total[s])
      /\ PlanSum(s) = gap_total[s]

\* C10, amended: the rows carry the rounded shares, and their sum is G up
\* to rounding: it differs from G by at most 1, and is exactly G whenever
\* G is a multiple of 20 (G = 240 gives 108 + 84 + 48 = 240).
C10_SplitSumNearTotal ==
  m_pc = "write_plan" =>
    \A s \in DOMAIN gap_total :
      LET g == gap_total[s]
      IN /\ SplitAsRounded(s, g)
         /\ PlanSum(s) - g \in {-1, 0, 1}
         /\ g % 20 = 0 => PlanSum(s) = g
         /\ g = 240 =>
              /\ PlannedOn(s, day) = 108
              /\ PlannedOn(s, day + 1) = 84
              /\ PlannedOn(s, day + 2) = 48

\* A total of 240 was split into three rows.
C10_Witness ==
  /\ m_pc = "write_plan"
  /\ \E s \in DOMAIN gap_total :
       /\ gap_total[s] = 240
       /\ Cardinality(PlanRowsOf(s)) = 3
       /\ PlanSum(s) = 240

(* ---------------------------------------------------------------------- *)
(* Properties of the MRP run                                               *)
(* ---------------------------------------------------------------------- *)
\* The MRP run has computed its two tables.
MrpComputed == mrp_pc \in {"write_req", "write_exc", "done"}

\* The (plan row, BOM row) pairs behind the requirement of a material on a
\* date: the plan row is of that date and the BOM row gives the usage of
\* the material by the plan row's SKU.
PlanBomPairs(d, m) ==
  {p \in (DOMAIN plan_rows) \X (DOMAIN bom) :
     /\ plan_rows[p[1]].date = d
     /\ bom[p[2]].sku = plan_rows[p[1]].sku
     /\ bom[p[2]].material = m}

Requirement(d, m) ==
  SetSum([p \in PlanBomPairs(d, m) |->
            plan_rows[p[1]].planned_qty_cases * bom[p[2]].usage_per_case],
         PlanBomPairs(d, m))

ReqRowsOf(d, m) == {k \in DOMAIN req : req[k].date = d /\ req[k].material = m}

ExcRowsOf(d, m) == {n \in DOMAIN exc : exc[n].date = d /\ exc[n].material = m}

\* C12: mrp_explode returns one row per (date, material) for which a SKU
\* planned on the date has a BOM row of the material, and no other row; the
\* row's req_qty is the sum over the SKUs planned on that date of planned
\* quantity x usage per case; a planned SKU without BOM row adds nothing,
\* has no row of its own, and the run does not fail on it.
C12_RequirementIsSum ==
  /\ "plan_by_sku_day" \in results => mrp_pc # "failed"
  /\ MrpComputed =>
       /\ \A k \in DOMAIN req :
            /\ req[k].material # NoMaterial
            /\ PlanBomPairs(req[k].date, req[k].material) # {}
            /\ req[k].req_qty = Requirement(req[k].date, req[k].material)
            /\ ReqRowsOf(req[k].date, req[k].material) = {k}
       /\ \A i \in DOMAIN plan_rows : \A j \in DOMAIN bom :
            bom[j].sku = plan_rows[i].sku =>
              ReqRowsOf(plan_rows[i].date, bom[j].material) # {}

\* Requirements were computed from a plan with two SKUs that use the same
\* material on one date and a third SKU, on that date too, without BOM row.
C12_Witness ==
  /\ MrpComputed
  /\ \E d \in {day, day + 1} : \E m \in {"CAP", "FILM"} :
       /\ \E p \in PlanBomPairs(d, m) : \E q \in PlanBomPairs(d, m) :
            plan_rows[p[1]].sku # plan_rows[q[1]].sku
       /\ ReqRowsOf(d, m) # {}
       /\ \E i \in DOMAIN plan_rows :
            /\ plan_rows[i].date = d
            /\ \A j \in DOMAIN bom : bom[j].sku # plan_rows[i].sku

\* C11: for every requirement row whose material has an inventory row, with
\* available = on_hand + on_order if the arrival date is present and <= the
\* row's date, else on_hand (whatever earlier buckets required), and
\* short = max(0, requirement - available): the exception report has a row
\* for the (date, material) exactly when short > 0, one at most, carrying
\* that available and short quantity; it has no other rows; requirement
\* 1000 against on-hand 800 with 300 on order gives short 200 on a date
\* before the arrival and no row from the arrival date on.
C11_ShortageByBucket ==
  MrpComputed =>
    /\ \A n \in DOMAIN exc :
         /\ exc[n].short_qty > 0
         /\ ReqRowsOf(exc[n].date, exc[n].material) # {}
    /\ \A k \in DOMAIN req : \A i \in DOMAIN mat_inv :
         mat_inv[i].material = req[k].material =>
           LET r == mat_inv[i]
               d == req[k].date
               arrived == r.eta_date # NoEta /\ r.eta_date <= d
               available == IF arrived THEN r.on_hand_qty + r.on_order_qty
                            ELSE r.on_hand_qty
               short == Max(0, req[k].req_qty - available)
               rows == ExcRowsOf(d, req[k].material)
           IN /\ short > 0 <=> rows # {}
              /\ Cardinality(rows) <= 1
              /\ \A n \in rows :
                   /\ exc[n].req_qty = req[k].req_qty
                   /\ exc[n].available_qty = available
                   /\ exc[n].short_qty = short
              /\ (/\ req[k].req_qty = 1000
                  /\ r.on_hand_qty = 800
                  /\ r.on_order_qty = 300
                  /\ r.eta_date # NoEta) =>
                   IF d < r.eta_date
                   THEN \E n \in rows : exc[n].short_qty = 200
                   ELSE rows = {}

\* A material with 800 on hand and 300 arriving on the second date was
\* required at 1000 on both dates: the first date has an exception row of
\* 200, the second has none.
C11_Witness ==
  /\ MrpComputed
  /\ \E i \in DOMAIN mat_inv :
       /\ mat_inv[i].on_hand_qty = 800
       /\ mat_inv[i].on_order_qty = 300
       /\ mat_inv[i].eta_date = day + 1
       /\ \E k \in ReqRowsOf(day, mat_inv[i].material) : req[k].req_qty = 1000
       /\ \E k \in ReqRowsOf(day + 1, mat_inv[i].material) : req[k].req_qty = 1000
       /\ \E n \in ExcRowsOf(day, mat_inv[i].material) : exc[n].short_qty = 200
       /\ ExcRowsOf(day + 1, mat_inv[i].material) = {}

(* ---------------------------------------------------------------------- *)
(* Properties of the changeover lookup and the provider's matrix           *)
(* ---------------------------------------------------------------------- *)
\* C7: changeover(x, x) = 0 for every SKU x: chg returns 0 for equal from-
\* and to-SKU on any matrix, also one without an (x, x) entry, and the
\* matrix of the data provider holds 0 for every same-SKU pair.
C7_SameSkuZero ==
  /\ \A x \in Skus : <<x, x>> \in DOMAIN chg_result => chg_result[<<x, x>>] = 0
  /\ \A p \in DOMAIN gen_rows : p[1] = p[2] => gen_rows[p] = 0

====
